---- MODULE Spec2Model ----
(***************************************************************************)
(* A model of the news acquisition pipeline of get_news.py: text cleaning, *)
(* relative-time parsing, page extraction, the crawl orchestrator with its *)
(* interval gate, and the CSV store it appends to.                         *)
(*                                                                         *)
(* Text is a sequence of tokens: one token per character (a Latin word     *)
(* such as COMEX is one token), written here in ASCII.  The tokens " ",    *)
(* "CTRL", "<b>", "&lt;b&gt;" and "&amp;lt;b&amp;gt;" stand for a space, a *)
(* control character, a markup tag and its singly and doubly escaped form. *)
(***************************************************************************)
EXTENDS Integers, Sequences, FiniteSets, TLC

None == "None"

\* ------------------------------------------------------------------------
\* Constants of get_news.py
\* ------------------------------------------------------------------------

\* KEYWORDS: hujin, huangjin qihuo, COMEX huangjin, shiwu huangjin,
\* huangjin ETF, meilianchu, lilv
KEYWORDS ==
    << <<"hu", "jin">>,
       <<"huang", "jin", "qi", "huo">>,
       <<"COMEX", "huang", "jin">>,
       <<"shi", "wu", "huang", "jin">>,
       <<"huang", "jin", "ETF">>,
       <<"mei", "lian", "chu">>,
       <<"li", "lv">> >>

CRAWL_INTERVAL_HOURS == 4

\* fetch_news(keyword, pages=2)
PAGES == 2

\* every (keyword, page) of lines 142 and 70, keyword-major, page-minor
AllPairs ==
    [i \in 1..(Len(KEYWORDS) * PAGES) |-> <<((i - 1) \div PAGES) + 1, ((i - 1) % PAGES) + 1>>]

\* ------------------------------------------------------------------------
\* Sequence helpers
\* ------------------------------------------------------------------------

RECURSIVE Filter(_, _)
Filter(s, keep) ==
    IF s = <<>> THEN <<>>
    ELSE IF Head(s) \in keep THEN <<Head(s)>> \o Filter(Tail(s), keep)
    ELSE Filter(Tail(s), keep)

Range(s) == {s[i] : i \in 1..Len(s)}

RECURSIVE SeqsUpTo(_, _)
SeqsUpTo(S, n) ==
    IF n = 0 THEN {<<>>}
    ELSE LET shorter == SeqsUpTo(S, n - 1)
         IN shorter \cup {Append(q, e) : q \in shorter, e \in S}

\* kw in text
IsSubstring(kw, text) ==
    \E i \in 0..(Len(text) - Len(kw)) :
        \A j \in 1..Len(kw) : text[i + j] = kw[j]

\* ------------------------------------------------------------------------
\* ultimate_clean_text
\* ------------------------------------------------------------------------

\* one pass of html.unescape over a token
UnescapeToken(t) ==
    CASE t = "&amp;lt;b&amp;gt;" -> "&lt;b&gt;"
      [] t = "&lt;b&gt;" -> "<b>"
      [] OTHER -> t

UnescapeOnce(text) == [i \in 1..Len(text) |-> UnescapeToken(text[i])]

\* while True: unescaped = html.unescape(text); stop at the fixed point
RECURSIVE UnescapeFix(_)
UnescapeFix(text) ==
    LET unescaped == UnescapeOnce(text)
    IN IF unescaped = text THEN text ELSE UnescapeFix(unescaped)

RECURSIVE LStrip(_)
LStrip(text) ==
    IF text # <<>> /\ Head(text) = " " THEN LStrip(Tail(text)) ELSE text

RECURSIVE RStrip(_)
RStrip(text) ==
    IF text # <<>> /\ text[Len(text)] = " "
    THEN RStrip(SubSeq(text, 1, Len(text) - 1))
    ELSE text

Strip(text) == RStrip(LStrip(text))

\* BeautifulSoup(text).get_text(strip=True): the text nodes between tags,
\* each stripped, joined without a separator
RECURSIVE GetTextStrip(_, _)
GetTextStrip(text, node) ==
    IF text = <<>> THEN Strip(node)
    ELSE IF Head(text) = "<b>"
         THEN Strip(node) \o GetTextStrip(Tail(text), <<>>)
         ELSE GetTextStrip(Tail(text), Append(node, Head(text)))

\* re.sub(r'[\x00-\x1f\x7f-\x9f]', '', text)
RemoveControl(text) == Filter(text, Range(text) \ {"CTRL"})

\* re.sub(r'\s+', ' ', text)
RECURSIVE CollapseSpace(_)
CollapseSpace(text) ==
    IF Len(text) < 2 THEN text
    ELSE IF text[1] = " " /\ text[2] = " " THEN CollapseSpace(Tail(text))
    ELSE <<Head(text)>> \o CollapseSpace(Tail(text))

\* a value that is not a str
NotStr == <<None>>

ultimate_clean_text(raw_html) ==
    IF raw_html = NotStr THEN <<>>
    ELSE Strip(CollapseSpace(RemoveControl(GetTextStrip(UnescapeFix(raw_html), <<>>))))

\* any(kw in content_to_check for kw in KEYWORDS)
ContainsKeyword(content_to_check) ==
    \E k \in 1..Len(KEYWORDS) : IsSubstring(KEYWORDS[k], content_to_check)

\* ------------------------------------------------------------------------
\* datetime arithmetic: a datetime is a record y, mo, d, h, mi; its value
\* is the number of minutes since datetime.min (0001-01-01 00:00)
\* ------------------------------------------------------------------------

IsLeap(y) == (y % 4 = 0) /\ ((y % 100 # 0) \/ (y % 400 = 0))

DaysInMonth(y, mo) ==
    CASE mo \in {1, 3, 5, 7, 8, 10, 12} -> 31
      [] mo \in {4, 6, 9, 11} -> 30
      [] OTHER -> IF IsLeap(y) THEN 29 ELSE 28

RECURSIVE DaysBeforeMonth(_, _)
DaysBeforeMonth(y, mo) ==
    IF mo = 1 THEN 0 ELSE DaysBeforeMonth(y, mo - 1) + DaysInMonth(y, mo - 1)

DaysBeforeYear(y) ==
    (y - 1) * 365 + ((y - 1) \div 4) - ((y - 1) \div 100) + ((y - 1) \div 400)

ToMinutes(dt) ==
    ((DaysBeforeYear(dt.y) + DaysBeforeMonth(dt.y, dt.mo) + (dt.d - 1)) * 24 + dt.h) * 60
        + dt.mi

ValidDate(y, mo, d) == mo \in 1..12 /\ d \in 1..DaysInMonth(y, mo)

ValidHM(hm) == hm # <<>> /\ hm[1] \in 0..23 /\ hm[2] \in 0..59

\* the outcome of a call: a returned value, or the exception it raised
Returned(v) == [raised |-> FALSE, value |-> v, error |-> ""]
Raised(e) == [raised |-> TRUE, value |-> 0, error |-> e]

\* ------------------------------------------------------------------------
\* parse_sina_time.  Its argument is a record of what the function reads
\* in it: whether it is a str at all (None when the block has no time tag),
\* whether it contains the "minutes ago" and "today" markers, its first run
\* of digits (<<n>>, or <<>> when it has none), the HH:MM of its last
\* space-separated part and the MM-DD, HH:MM the whole string spells
\* (<<>> where it does not have that shape).
\* ------------------------------------------------------------------------

parse_sina_time(time_str, now) ==
    IF ~time_str.is_str THEN Returned(ToMinutes(now))
    ELSE IF time_str.minutes_ago
    THEN \* int(re.search(r'(\d+)', time_str).group(1))
         IF time_str.digits = <<>> THEN Returned(ToMinutes(now))   \* AttributeError
         ELSE LET minutes == time_str.digits[1]
              IN IF ToMinutes(now) - minutes < 0
                 THEN Raised("OverflowError")                       \* not caught
                 ELSE Returned(ToMinutes(now) - minutes)
    ELSE IF time_str.today
    THEN IF ValidHM(time_str.last_hm)
         THEN Returned(ToMinutes([now EXCEPT !.h = time_str.last_hm[1],
                                             !.mi = time_str.last_hm[2]]))
         ELSE Returned(ToMinutes(now))                              \* ValueError
    ELSE IF time_str.md = <<>> \/ ~ValidHM(time_str.md_hm)
              \/ ~ValidDate(now.y, time_str.md[1], time_str.md[2])
         THEN Returned(ToMinutes(now))                              \* ValueError
         ELSE LET parsed_dt == [y |-> now.y, mo |-> time_str.md[1], d |-> time_str.md[2],
                                h |-> time_str.md_hm[1], mi |-> time_str.md_hm[2]]
              IN IF ToMinutes(parsed_dt) > ToMinutes(now)
                 THEN IF ValidDate(now.y - 1, parsed_dt.mo, parsed_dt.d)
                      THEN Returned(ToMinutes([parsed_dt EXCEPT !.y = now.y - 1]))
                      ELSE Returned(ToMinutes(now))                 \* ValueError in replace
                 ELSE Returned(ToMinutes(parsed_dt))

\* get_sentiment_score: the score SnowNLP gives a text is a function of the
\* text alone; it is kept as the name of that function's value
get_sentiment_score(text) ==
    IF text = <<>> THEN "0.5" ELSE "SnowNLP.sentiments"

\* ------------------------------------------------------------------------
\* fetch_news: one result block, one page
\* A block is a record of what the function finds in a div.box-result:
\*   h2   the text of its h2 (<<>> when it has none)
\*   link the href of the a in its h2: None when there is no h2 or no a,
\*        NoHref when the a has no href attribute
\*   p    the text of its p.content (<<>> when it has none)
\*   time the text of its span.fgray_time
\* ------------------------------------------------------------------------

NoHref == "NoHref"

ProcessBlock_NoKeywordCheck(item, news_list, now) ==
    LET title == ultimate_clean_text(item.h2)
        summary == ultimate_clean_text(item.p)
        parsed_time == parse_sina_time(item.time, now)
    IN IF item.link = NoHref THEN Raised("KeyError")
       ELSE IF parsed_time.raised THEN Raised(parsed_time.error)
       ELSE IF title # <<>> /\ summary # <<>>
            THEN Returned(Append(news_list,
                     [title |-> title, summary |-> summary, time |-> parsed_time.value,
                      url |-> item.link,
                      sentiment |-> get_sentiment_score(title \o summary)]))
            ELSE Returned(news_list)

\* lines 80-96: the list after the block, or the exception it raised
ProcessBlock(item, news_list, now) ==
    LET title == ultimate_clean_text(item.h2)
        summary == ultimate_clean_text(item.p)
        parsed_time == parse_sina_time(item.time, now)
        content_to_check == title \o summary
    IN IF item.link = NoHref THEN Raised("KeyError")
       ELSE IF parsed_time.raised THEN Raised(parsed_time.error)
       ELSE IF title # <<>> /\ summary # <<>> /\ ContainsKeyword(content_to_check)
            THEN Returned(Append(news_list,
                     [title |-> title, summary |-> summary, time |-> parsed_time.value,
                      url |-> item.link,
                      sentiment |-> get_sentiment_score(content_to_check)]))
            ELSE Returned(news_list)

\* lines 77-96: the blocks of one page in order; an exception leaves the loop
\* with the list as it then is (it is caught at line 100)
RECURSIVE ProcessBlocks(_, _, _)
ProcessBlocks(results, news_list, now) ==
    IF results = <<>> THEN news_list
    ELSE LET r == ProcessBlock(Head(results), news_list, now)
         IN IF r.raised THEN news_list
            ELSE ProcessBlocks(Tail(results), r.value, now)

\* lines 71-101: one iteration of the page loop.  response is what
\* requests.get gave: a RequestException (a timeout, a connection error), or
\* a status code with the blocks of the page
FetchFailed(response) == response.kind \in {"Timeout", "ConnectionError"}

FetchOnePage_FailureEndsLoop(response, news_list, now) ==
    IF FetchFailed(response) THEN <<>>
    ELSE IF response.status_code = 200
         THEN ProcessBlocks(response.results, news_list, now)
         ELSE news_list

FetchOnePage(response, news_list, now) ==
    IF FetchFailed(response) THEN news_list
    ELSE IF response.status_code = 200
         THEN ProcessBlocks(response.results, news_list, now)
         ELSE news_list

\* ------------------------------------------------------------------------
\* The CSV file.  file.lines are its lines: the header line, or the line of
\* an item; file.mtime is its st_mtime.
\* ------------------------------------------------------------------------

NoItem == [title |-> <<>>, summary |-> <<>>, time |-> 0, url |-> "", sentiment |-> ""]
HeaderLine == [header |-> TRUE, item |-> NoItem]
RowLine(item) == [header |-> FALSE, item |-> item]

\* the records of the store: the items of the lines that are not a header
Records(f) ==
    LET rows == SelectSeq(f.lines, LAMBDA line : ~line.header)
    IN [i \in 1..Len(rows) |-> rows[i].item]

StoredUrls(f) == {Records(f)[i].url : i \in 1..Len(Records(f))}

\* csv writes None as the empty string
CsvField(v) == IF v = None THEN "" ELSE v

\* row['url'] of a line read under the fieldnames of the header line; a
\* second header line reads as a row whose url is the text "url"
RowUrl(line) == IF line.header THEN "url" ELSE CsvField(line.item.url)

ReadExistingUrls_SkipsFirstRow(lines) ==
    IF Len(lines) < 2 THEN {}
    ELSE IF Head(lines).header
         THEN {RowUrl(Tail(Tail(lines))[i]) : i \in 1..(Len(lines) - 2)}
         ELSE {}

\* lines 116-120: csv.DictReader takes the first line of the file as the
\* field names.  When that line is an item's line, no row has a 'url' key
\* (no field of an item is the text "url").
ReadExistingUrls(lines) ==
    IF lines = <<>> THEN {}
    ELSE IF Head(lines).header
         THEN {RowUrl(Tail(lines)[i]) : i \in 1..(Len(lines) - 1)}
         ELSE {}

NewItems_NoFilter(news_list, existing_urls) == news_list

\* line 121
NewItems(news_list, existing_urls) ==
    SelectSeq(news_list, LAMBDA item : item.url \notin existing_urls)

\* what the writer holds for the file: the header if the file did not
\* exist (line 112-113), the new items' rows (line 122-123)
HeaderBuffer(file_exists) == IF file_exists THEN <<>> ELSE <<HeaderLine>>
RowsBuffer(new_items) == [i \in 1..Len(new_items) |-> RowLine(new_items[i])]

\* open(filepath, mode='a'): creates the file when it does not exist
OpenAppend(f, now) ==
    IF f.exists THEN f ELSE [exists |-> TRUE, lines |-> <<>>, mtime |-> now]

\* the buffered lines reach the file when it is closed
FlushLines(f, buffer, now) ==
    IF buffer = <<>> THEN f
    ELSE [f EXCEPT !.lines = f.lines \o buffer, !.mtime = now]

save_news_to_csv_CountsAll(news_list, f, now) ==
    LET file_exists == f.exists
        opened == OpenAppend(f, now)
        existing_urls == IF file_exists THEN ReadExistingUrls(opened.lines) ELSE {}
        new_items == NewItems(news_list, existing_urls)
    IN [file |-> FlushLines(opened, HeaderBuffer(file_exists) \o RowsBuffer(new_items), now),
        new_items_count |-> Len(news_list)]

\* save_news_to_csv, when no call fails
save_news_to_csv(news_list, f, now) ==
    LET file_exists == f.exists
        opened == OpenAppend(f, now)
        existing_urls == IF file_exists THEN ReadExistingUrls(opened.lines) ELSE {}
        new_items == NewItems(news_list, existing_urls)
    IN [file |-> FlushLines(opened, HeaderBuffer(file_exists) \o RowsBuffer(new_items), now),
        new_items_count |-> Len(new_items)]

UniqueNews_NoDedup(all_news, acc) ==
    acc \o SelectSeq(all_news, LAMBDA item : item.url # None /\ item.url # "")

\* line 150: {item["url"]: item for item in all_news if item.get("url")}.values()
\* a dict keeps a key at the place of its first insertion and the value of
\* its last
RECURSIVE UniqueNews(_, _)
UniqueNews(all_news, acc) ==
    IF all_news = <<>> THEN acc
    ELSE LET item == Head(all_news)
         IN IF item.url = None \/ item.url = ""
            THEN UniqueNews(Tail(all_news), acc)
            ELSE IF \E i \in 1..Len(acc) : acc[i].url = item.url
                 THEN UniqueNews(Tail(all_news),
                          [i \in 1..Len(acc) |->
                              IF acc[i].url = item.url THEN item ELSE acc[i]])
                 ELSE UniqueNews(Tail(all_news), Append(acc, item))

TooSoon_AtFourHours(f, now) == f.exists /\ now - f.mtime <= CRAWL_INTERVAL_HOURS

\* lines 131-138: the gate
TooSoon(f, now) == f.exists /\ now - f.mtime < CRAWL_INTERVAL_HOURS

\* ------------------------------------------------------------------------
\* Bounds and inputs
\* ------------------------------------------------------------------------

\* hours the clock runs
MaxClock == 4
\* items one crawl extracts in all
MaxNews == 2

TimeStr(minutes_ago, today, digits, last_hm, md, md_hm) ==
    [is_str |-> TRUE, minutes_ago |-> minutes_ago, today |-> today, digits |-> digits,
     last_hm |-> last_hm, md |-> md, md_hm |-> md_hm]

\* no span.fgray_time: pub_time_str is None
NoTime == [TimeStr(FALSE, FALSE, <<>>, <<>>, <<>>, <<>>) EXCEPT !.is_str = FALSE]
\* "5 minutes ago", "today 14:30", "12-31 10:00"
FiveMinutesAgo == TimeStr(TRUE, FALSE, <<5>>, <<>>, <<>>, <<>>)
Today1430 == TimeStr(FALSE, TRUE, <<14>>, <<14, 30>>, <<>>, <<>>)
Dec31 == TimeStr(FALSE, FALSE, <<12>>, <<10, 0>>, <<12, 31>>, <<10, 0>>)
\* "2000000000 minutes ago": more minutes than there are since datetime.min
LongAgo == TimeStr(TRUE, FALSE, <<2000000000>>, <<>>, <<>>, <<>>)

Block(h2, link, p_content, time) == [h2 |-> h2, link |-> link, p |-> p_content, time |-> time]

\* result blocks: two with the url u1 and different text, one with u2
BlockA == Block(<<"<b>", "li", "lv", " ">>, "u1", <<"x">>, FiveMinutesAgo)
BlockA2 == Block(<<"hu">>, "u1", <<"jin">>, Today1430)
BlockB == Block(<<"mei", "lian", "chu">>, "u2", <<"&amp;lt;b&amp;gt;", "y">>, Dec31)
\* no a in the h2; an a with an empty href; an a with no href
BlockNoLink == Block(<<"li", "lv">>, None, <<"x">>, NoTime)
BlockEmptyHref == Block(<<"li", "lv">>, "", <<"x">>, NoTime)
BlockNoHref == Block(<<"li", "lv">>, NoHref, <<"x">>, NoTime)
\* no keyword; a title, a summary that cleans to nothing
BlockNoKeyword == Block(<<"x">>, "u3", <<"y">>, NoTime)
BlockNoTitle == Block(<<" ", "CTRL">>, "u3", <<"li", "lv">>, NoTime)
BlockNoSummary == Block(<<"li", "lv">>, "u3", <<>>, NoTime)
\* a time string that parse_sina_time raises on
BlockLongAgo == Block(<<"li", "lv">>, "u3", <<"x">>, LongAgo)

\* the search pages: the result blocks of each
Pages ==
    { <<>>,
      <<BlockA>>, <<BlockA2>>, <<BlockB>>, <<BlockA, BlockB>>,
      <<BlockNoLink>>, <<BlockEmptyHref>>,
      <<BlockNoKeyword, BlockNoTitle, BlockNoSummary>>,
      <<BlockA, BlockNoHref, BlockB>>,
      <<BlockLongAgo, BlockB>> }

Response(kind, status_code, results) ==
    [kind |-> kind, status_code |-> status_code, results |-> results]

\* what requests.get can give for a page
Responses ==
    {Response(k, 0, <<>>) : k \in {"Timeout", "ConnectionError"}}
        \cup {Response("Response", 404, <<BlockA>>)}
        \cup {Response("Response", 200, r) : r \in Pages}

\* datetime.now() at an hour of the clock: the clock starts 2024-01-05 00:00
datetime_now(t) == [y |-> 2024, mo |-> 1, d |-> 5, h |-> t, mi |-> 0]

\* ------------------------------------------------------------------------
\* State
\* ------------------------------------------------------------------------

Procs == {1, 2}

VARIABLES
    clock,        \* the time, in hours
    file,         \* DATA_FILE: exists, lines, mtime
    pc,           \* where each caller of run_news_crawl is
    kw, page,     \* the keyword and page its loops are at
    news_list,    \* fetch_news's list for the keyword
    all_news,     \* run_news_crawl's list
    result,       \* what run_news_crawl returned: message, count
    fetchLog,     \* the (keyword, page) pairs fetched in this run, in order
    lastFetch,    \* the last response, its kind and status code (FetchSpec only)
    before,       \* the file and the time when the run started
    fault,        \* the call of save_news_to_csv that failed in the run (IOSpec)
    save,         \* the locals of save_news_to_csv, between its steps (ConcSpec)
    merges,       \* the last calls of save_news_to_csv (MergeSpec)
    parse         \* a call of parse_sina_time (ParseSpec)

vars == <<clock, file, pc, kw, page, news_list, all_news, result, fetchLog, lastFetch, before,
          fault, save, merges, parse>>

NoSave == [file_exists |-> FALSE, unique_news |-> <<>>, buffer |-> <<>>,
           new_items_count |-> 0, appended |-> <<>>]
NoMerges == [candidates |-> <<>>, count |-> 0, records_before |-> <<>>]
NoParse == [time_str |-> NoTime, now |-> datetime_now(0), called |-> FALSE,
            out |-> Returned(0)]

Result(message, count, hours) == [message |-> message, count |-> count, hours |-> hours]

NoFetch == [kind |-> "", status_code |-> 0]

NoFile == [exists |-> FALSE, lines |-> <<>>, mtime |-> 0]

CrawlInit ==
    /\ clock = 0
    /\ file = NoFile
    /\ pc = [p \in Procs |-> "idle"]
    /\ kw = [p \in Procs |-> 1]
    /\ page = [p \in Procs |-> 1]
    /\ news_list = [p \in Procs |-> <<>>]
    /\ all_news = [p \in Procs |-> <<>>]
    /\ result = [p \in Procs |-> Result("", 0, 0)]
    /\ fetchLog = [p \in Procs |-> <<>>]
    /\ lastFetch = [p \in Procs |-> NoFetch]
    /\ before = [p \in Procs |-> [file |-> NoFile, now |-> 0]]
    /\ fault = [p \in Procs |-> "none"]
    /\ save = [p \in Procs |-> NoSave]

crawlVars == <<clock, file, pc, kw, page, news_list, all_news, result, fetchLog, lastFetch,
               before, fault, save>>

Init == CrawlInit /\ merges = NoMerges /\ parse = NoParse

\* time passes between calls
Tick ==
    /\ \A p \in Procs : pc[p] = "idle"
    /\ clock < MaxClock
    /\ clock' = clock + 1
    /\ UNCHANGED <<file, pc, kw, page, news_list, all_news, result, fetchLog, lastFetch, before>>
    /\ UNCHANGED <<fault, save, merges, parse>>

\* run_news_crawl, lines 131-140: return at the gate, or start the loops
GateCheck(p) ==
    /\ pc[p] = "idle"
    /\ before' = [before EXCEPT ![p] = [file |-> file, now |-> clock]]
    /\ fetchLog' = [fetchLog EXCEPT ![p] = <<>>]
    /\ all_news' = [all_news EXCEPT ![p] = <<>>]
    /\ news_list' = [news_list EXCEPT ![p] = <<>>]
    /\ kw' = [kw EXCEPT ![p] = 1]
    /\ page' = [page EXCEPT ![p] = 1]
    /\ lastFetch' = [lastFetch EXCEPT ![p] = NoFetch]
    /\ IF TooSoon(file, clock)
       THEN /\ result' = [result EXCEPT ![p] =
                   Result("too soon", 0, CRAWL_INTERVAL_HOURS - (clock - file.mtime))]
            /\ pc' = [pc EXCEPT ![p] = "returned"]
       ELSE /\ result' = [result EXCEPT ![p] = Result("", 0, 0)]
            /\ pc' = [pc EXCEPT ![p] = "fetching"]
    /\ UNCHANGED <<clock, file, fault, save, merges, parse>>

\* one iteration of fetch_news's page loop (lines 70-101); after the last
\* page of a keyword, fetch_news returns and line 145 extends all_news
Fetch(p, logged) ==
    /\ pc[p] = "fetching"
    /\ \E response \in Responses :
         LET fetched == FetchOnePage(response, news_list[p], datetime_now(clock))
         IN /\ Len(all_news[p]) + Len(fetched) <= MaxNews
            /\ lastFetch' = [lastFetch EXCEPT ![p] =
                   IF logged
                   THEN [kind |-> response.kind, status_code |-> response.status_code]
                   ELSE NoFetch]
            /\ IF page[p] < PAGES
               THEN /\ news_list' = [news_list EXCEPT ![p] = fetched]
                    /\ page' = [page EXCEPT ![p] = page[p] + 1]
                    /\ UNCHANGED <<all_news, kw, pc>>
               ELSE /\ all_news' = [all_news EXCEPT ![p] = all_news[p] \o fetched]
                    /\ news_list' = [news_list EXCEPT ![p] = <<>>]
                    /\ page' = [page EXCEPT ![p] = 1]
                    /\ IF kw[p] < Len(KEYWORDS)
                       THEN /\ kw' = [kw EXCEPT ![p] = kw[p] + 1]
                            /\ UNCHANGED pc
                       ELSE /\ pc' = [pc EXCEPT ![p] = "fetched"]
                            /\ UNCHANGED kw
    /\ fetchLog' = [fetchLog EXCEPT ![p] = Append(fetchLog[p], <<kw[p], page[p]>>)]
    /\ UNCHANGED <<clock, file, result, before, fault, save, merges, parse>>

FetchPage(p) == Fetch(p, FALSE)

\* the same step, with the response it got kept in lastFetch
FetchPageLogged(p) == Fetch(p, TRUE)

\* lines 153-156
Completed(saved_count) ==
    IF saved_count > 0
    THEN Result("completed, added", saved_count, 0)
    ELSE Result("completed, no new content", 0, 0)

\* run_news_crawl, lines 147-156, with save_news_to_csv
Finish(p) ==
    /\ pc[p] = "fetched"
    /\ IF all_news[p] = <<>>
       THEN /\ result' = [result EXCEPT ![p] = Result("nothing fetched", 0, 0)]
            /\ UNCHANGED file
       ELSE LET unique_news == UniqueNews(all_news[p], <<>>)
                saved == save_news_to_csv(unique_news, file, clock)
            IN /\ file' = saved.file
               /\ result' = [result EXCEPT ![p] = Completed(saved.new_items_count)]
    /\ pc' = [pc EXCEPT ![p] = "returned"]
    /\ UNCHANGED <<clock, kw, page, news_list, all_news, fetchLog, lastFetch, before>>
    /\ UNCHANGED <<fault, save, merges, parse>>

\* the caller has the result, or the exception, and may call again; the
\* locals of the call are gone
Return(p) ==
    /\ pc[p] \in {"returned", "raised"}
    /\ pc' = [pc EXCEPT ![p] = "idle"]
    /\ kw' = [kw EXCEPT ![p] = 1]
    /\ page' = [page EXCEPT ![p] = 1]
    /\ news_list' = [news_list EXCEPT ![p] = <<>>]
    /\ all_news' = [all_news EXCEPT ![p] = <<>>]
    /\ result' = [result EXCEPT ![p] = Result("", 0, 0)]
    /\ fetchLog' = [fetchLog EXCEPT ![p] = <<>>]
    /\ lastFetch' = [lastFetch EXCEPT ![p] = NoFetch]
    /\ before' = [before EXCEPT ![p] = [file |-> NoFile, now |-> 0]]
    /\ fault' = [fault EXCEPT ![p] = "none"]
    /\ save' = [save EXCEPT ![p] = NoSave]
    /\ UNCHANGED <<clock, file, merges, parse>>

\* one caller, one call at a time
Next ==
    \/ Tick
    \/ GateCheck(1)
    \/ FetchPage(1)
    \/ Finish(1)
    \/ Return(1)

Spec == Init /\ [][Next]_vars

\* a call of run_news_crawl runs on: its loops and its last lines are steps
\* of one sequential program
Crawl(p) == FetchPageLogged(p) \/ Finish(p)

\* the calls of one caller at one time of day, each response kept
FetchNext ==
    \/ GateCheck(1)
    \/ FetchPageLogged(1)
    \/ Finish(1)
    \/ Return(1)

FetchSpec == Init /\ [][FetchNext]_vars /\ WF_vars(Crawl(1))

\* ------------------------------------------------------------------------
\* Properties of the sequential crawl (Spec)
\* ------------------------------------------------------------------------

\* the run of p went past the gate and has returned
RanAndReturned(p) == pc[p] = "returned" /\ result[p].message # "too soon"

Gated(p) ==
    /\ before[p].file.exists
    /\ before[p].now - before[p].file.mtime < CRAWL_INTERVAL_HOURS

\* C3: a run that starts less than 4 hours after the store's last write
\* returns count 0 with the too-soon message, fetches no page and leaves
\* the store as it was; any other run goes on to fetch
C3_Gate ==
    pc[1] # "idle" =>
        IF Gated(1)
        THEN /\ pc[1] = "returned"
             /\ result[1].message = "too soon" /\ result[1].count = 0
             /\ fetchLog[1] = <<>>
             /\ file = before[1].file
        ELSE /\ result[1].message # "too soon"
             /\ pc[1] = "fetching" \/ fetchLog[1] # <<>>

\* a run was turned away at the gate, 3 hours after a write
C3_Witness ==
    /\ pc[1] = "returned" /\ result[1].message = "too soon"
    /\ before[1].now - before[1].file.mtime = CRAWL_INTERVAL_HOURS - 1

\* the candidates the run handed to the store whose url is not durable
FilteredSet(p) ==
    {all_news[p][k].url : k \in 1..Len(all_news[p])}
        \ (StoredUrls(before[p].file) \cup {None, ""})

\* C4: a merge whose filtered set is empty writes nothing and leaves the
\* last write time as it was; where no store existed, none exists after
C4_EmptyMergeWritesNothing ==
    (RanAndReturned(1) /\ all_news[1] # <<>> /\ FilteredSet(1) = {}) =>
        /\ file.exists = before[1].file.exists
        /\ file.mtime = before[1].file.mtime

\* C5: the result of a run that went past the gate: nothing fetched, no new
\* content, or added N, with N the records the store gained, which is the
\* number of candidate urls not durable before
C5_Result ==
    RanAndReturned(1) =>
        LET N == Len(Records(file)) - Len(Records(before[1].file))
        IN /\ N = Cardinality(FilteredSet(1))
           /\ IF all_news[1] = <<>>
              THEN result[1] = Result("nothing fetched", 0, 0) /\ file = before[1].file
              ELSE IF N = 0
                   THEN result[1] = Result("completed, no new content", 0, 0)
                   ELSE result[1] = Result("completed, added", N, 0)

\* a run added one record to a store that had one, and brought two candidates
C5_Witness ==
    /\ RanAndReturned(1)
    /\ result[1] = Result("completed, added", 1, 0)
    /\ Len(all_news[1]) = 2
    /\ Len(Records(before[1].file)) = 1

\* C10: every record of the store has a url, a cleaned title and a cleaned
\* summary that are not empty, and a keyword in title + summary; no block
\* without a link, a title, a summary or a keyword is in the store
C10_ValidRecords ==
    \A i \in 1..Len(Records(file)) :
        LET r == Records(file)[i]
        IN /\ r.url \notin {None, "", NoHref, "u3"}
           /\ r.title # <<>> /\ ultimate_clean_text(r.title) = r.title
           /\ r.summary # <<>> /\ ultimate_clean_text(r.summary) = r.summary
           /\ \E k \in 1..Len(KEYWORDS) : IsSubstring(KEYWORDS[k], r.title \o r.summary)

\* a run brought a candidate without a url next to one with a url, and the
\* store has a record
C10_Witness ==
    /\ RanAndReturned(1)
    /\ \E k \in 1..Len(all_news[1]) : all_news[1][k].url = None
    /\ Len(Records(file)) = 1
    /\ ~before[1].file.exists

\* ------------------------------------------------------------------------
\* The fetch phase (FetchSpec)
\* ------------------------------------------------------------------------

\* the candidates the run has so far
Candidates(p) == all_news[p] \o news_list[p]

IsPrefix(s, t) == Len(s) <= Len(t) /\ s = SubSeq(t, 1, Len(s))

\* the last fetch failed: a timeout, a transport exception, a status not 200
LastFetchFailed(p) ==
    lastFetch[p].kind \in {"Timeout", "ConnectionError"} \/ lastFetch[p].status_code # 200

\* the pages are fetched once each and in order; after the loops every pair
\* has been fetched, and every candidate with a url is durable after the run
C8_Order ==
    /\ IsPrefix(fetchLog[1], AllPairs)
    /\ (pc[1] = "fetched" \/ RanAndReturned(1)) => fetchLog[1] = AllPairs
    /\ RanAndReturned(1) =>
           \A k \in 1..Len(all_news[1]) :
               all_news[1][k].url \in StoredUrls(file) \cup {None, ""}

\* a fetch keeps the candidates of the pages before it, and a failed fetch
\* adds none; the last lines of the run drop none
C8_Step ==
    /\ (pc[1] = "fetching" /\ fetchLog'[1] # fetchLog[1]) =>
           /\ IsPrefix(Candidates(1), Candidates(1)')
           /\ LastFetchFailed(1)' => Candidates(1)' = Candidates(1)
    /\ pc[1] = "fetched" => all_news'[1] = all_news[1]

\* C8: in every run past the gate each (keyword, page) is fetched exactly
\* once, keyword-major and page-minor, whichever fetches fail; a failed page
\* adds no candidate, is not fetched again, and loses no candidate of
\* another page; the run ends
C8_FetchPhase ==
    /\ []C8_Order
    /\ [][C8_Step]_vars
    /\ (pc[1] = "fetching") ~> (pc[1] = "returned")

\* the loops are over, the last fetch failed, and the candidates of two
\* earlier pages are there
C8_Witness ==
    /\ pc[1] = "fetched"
    /\ LastFetchFailed(1)
    /\ Len(all_news[1]) = 2
    /\ fetchLog[1] = AllPairs

\* ------------------------------------------------------------------------
\* parse_sina_time on its own (ParseSpec)
\* ------------------------------------------------------------------------

\* "minutes ago" without digits, "today 25:61", "01-15 10:00", "02-29 10:00",
\* "02-30 10:00", "13-01 10:00", a string of no known shape, and
\* "today, 5 minutes ago"
NoDigits == TimeStr(TRUE, FALSE, <<>>, <<>>, <<>>, <<>>)
TodayBad == TimeStr(FALSE, TRUE, <<25>>, <<25, 61>>, <<>>, <<>>)
Jan15 == TimeStr(FALSE, FALSE, <<1>>, <<10, 0>>, <<1, 15>>, <<10, 0>>)
Feb29 == TimeStr(FALSE, FALSE, <<2>>, <<10, 0>>, <<2, 29>>, <<10, 0>>)
Feb30 == TimeStr(FALSE, FALSE, <<2>>, <<10, 0>>, <<2, 30>>, <<10, 0>>)
Month13 == TimeStr(FALSE, FALSE, <<13>>, <<10, 0>>, <<13, 1>>, <<10, 0>>)
Garbage == TimeStr(FALSE, FALSE, <<>>, <<>>, <<>>, <<>>)
TodayMinutes == TimeStr(TRUE, TRUE, <<5>>, <<>>, <<>>, <<>>)

TimeStrings ==
    {NoTime, FiveMinutesAgo, Today1430, Dec31, LongAgo, NoDigits, TodayBad, Jan15, Feb29,
     Feb30, Month13, Garbage, TodayMinutes}

DateTime(y, mo, d, h, mi) == [y |-> y, mo |-> mo, d |-> d, h |-> h, mi |-> mi]

Nows ==
    {DateTime(2024, 6, 1, 12, 0), DateTime(2024, 1, 5, 9, 0), DateTime(2024, 2, 10, 9, 0),
     DateTime(2025, 2, 10, 9, 0), DateTime(2024, 3, 1, 0, 3)}

ParseInputs ==
    {[time_str |-> t, now |-> n, called |-> FALSE, out |-> Returned(0)] :
        t \in TimeStrings, n \in Nows}

ParseInit == CrawlInit /\ merges = NoMerges /\ parse \in ParseInputs

ParseCall ==
    /\ ~parse.called
    /\ parse' = [parse EXCEPT !.called = TRUE,
                              !.out = parse_sina_time(parse.time_str, parse.now)]
    /\ UNCHANGED <<crawlVars, merges>>

ParseAgain ==
    /\ parse.called
    /\ parse' \in ParseInputs
    /\ UNCHANGED <<crawlVars, merges>>

ParseNext == ParseCall \/ ParseAgain

ParseSpec == ParseInit /\ [][ParseNext]_vars

\* C7: parse_sina_time raises on no input: it returns a timestamp, and now
\* when the string cannot be parsed
C7_NeverRaises == parse.called => ~parse.out.raised

\* ------------------------------------------------------------------------
\* save_news_to_csv on its own (MergeSpec): calls with the lists that
\* run_news_crawl hands it
\* ------------------------------------------------------------------------

\* the items the pages give
CandidateItems ==
    UNION {Range(FetchOnePage(r, <<>>, datetime_now(0))) : r \in Responses}

\* line 150 applied to the lists a crawl can gather
CandidateLists == {UniqueNews(l, <<>>) : l \in SeqsUpTo(CandidateItems, MaxNews)}

MergeCall ==
    /\ \E candidates \in CandidateLists :
         LET saved == save_news_to_csv(candidates, file, clock)
         IN /\ file' = saved.file
            /\ merges' = [candidates |->
                              IF merges.candidates = <<>> THEN <<candidates>>
                              ELSE <<merges.candidates[Len(merges.candidates)], candidates>>,
                          count |-> saved.new_items_count,
                          records_before |-> Records(file)]
    /\ UNCHANGED <<clock, pc, kw, page, news_list, all_news, result, fetchLog, lastFetch,
                   before, fault, save, parse>>

MergeNext == MergeCall

MergeSpec == Init /\ [][MergeNext]_vars

Faults == {"mkdir", "open", "read", "write", "close"}

\* save_news_to_csv with one call failing, or none.  A failed mkdir is
\* outside the try and raises to the caller; the others are caught at line
\* 125.  When writerows or the closing flush fails, the first written of the
\* buffered lines are in the file and the rest are not.
SaveWithFault(candidates, f, now, failing, written) ==
    LET file_exists == f.exists
        opened == OpenAppend(f, now)
        existing_urls == IF file_exists THEN ReadExistingUrls(opened.lines) ELSE {}
        new_items == NewItems(candidates, existing_urls)
        buffer == HeaderBuffer(file_exists) \o RowsBuffer(new_items)
        done(file_after, count, raised) ==
            [file |-> file_after, new_items_count |-> count, raised |-> raised]
    IN CASE failing = "mkdir" -> done(f, 0, TRUE)
         [] failing = "open" -> done(f, 0, FALSE)
         [] failing = "read" -> done(opened, 0, FALSE)
         [] failing = "write" ->
                done(FlushLines(opened, SubSeq(buffer, 1, written), now), 0, FALSE)
         [] failing = "close" ->
                done(FlushLines(opened, SubSeq(buffer, 1, written), now),
                     Len(new_items), FALSE)
         [] OTHER -> done(FlushLines(opened, buffer, now), Len(new_items), FALSE)

\* the call is reached, and has something to fail on
CanFail(candidates, f, failing) ==
    LET existing_urls == IF f.exists THEN ReadExistingUrls(f.lines) ELSE {}
        new_items == NewItems(candidates, existing_urls)
    IN CASE failing = "read" -> f.exists
         [] failing = "write" -> new_items # <<>>
         [] failing = "close" -> HeaderBuffer(f.exists) \o RowsBuffer(new_items) # <<>>
         [] OTHER -> TRUE

\* how many of the buffered lines a failed write or flush can leave in the
\* file: any number short of all
WrittenChoices(candidates, f, failing) ==
    LET existing_urls == IF f.exists THEN ReadExistingUrls(f.lines) ELSE {}
        new_items == NewItems(candidates, existing_urls)
        buffer == HeaderBuffer(f.exists) \o RowsBuffer(new_items)
    IN IF failing \in {"write", "close"} THEN 0..(Len(buffer) - 1) ELSE {0}

\* run_news_crawl, lines 147-156, where a call of save_news_to_csv may fail
FinishIO(p) ==
    /\ pc[p] = "fetched"
    /\ IF all_news[p] = <<>>
       THEN /\ result' = [result EXCEPT ![p] = Result("nothing fetched", 0, 0)]
            /\ pc' = [pc EXCEPT ![p] = "returned"]
            /\ UNCHANGED <<file, fault>>
       ELSE LET unique_news == UniqueNews(all_news[p], <<>>)
            IN \E failing \in Faults \cup {"none"} :
                 /\ CanFail(unique_news, file, failing)
                 /\ \E written \in WrittenChoices(unique_news, file, failing) :
                      LET saved == SaveWithFault(unique_news, file, clock, failing, written)
                      IN /\ file' = saved.file
                         /\ fault' = [fault EXCEPT ![p] = failing]
                         /\ IF saved.raised
                            THEN /\ pc' = [pc EXCEPT ![p] = "raised"]
                                 /\ UNCHANGED result
                            ELSE /\ pc' = [pc EXCEPT ![p] = "returned"]
                                 /\ result' = [result EXCEPT ![p] =
                                        Completed(saved.new_items_count)]
    /\ UNCHANGED <<clock, kw, page, news_list, all_news, fetchLog, lastFetch, before>>
    /\ UNCHANGED <<save, merges, parse>>

IONext ==
    \/ Tick
    \/ GateCheck(1)
    \/ FetchPage(1)
    \/ FinishIO(1)
    \/ Return(1)

IOSpec == Init /\ [][IONext]_vars

\* C6: when the open, the read, the write or the close of the store fails,
\* save_news_to_csv returns 0 and run_news_crawl returns count 0 and does
\* not raise
C6_IOErrorGivesZero ==
    (pc[1] \in {"returned", "raised"} /\ fault[1] \in {"open", "read", "write", "close"}) =>
        /\ pc[1] = "returned"
        /\ result[1].count = 0

\* ------------------------------------------------------------------------
\* Two callers of run_news_crawl at once (ConcSpec).  The steps of a call
\* are its accesses to the file: the gate (lines 131-133), exists (106), the
\* open for appending (110), the read (116-120) and the closing flush.  What
\* lies between two accesses is local to the call and is part of the step
\* that follows.  The rows of one call reach the file in one write.
\* ------------------------------------------------------------------------

\* lines 140-145 in one step: the pages give any of the items alone, so the
\* loops can gather any list of them
Gathered(t) ==
    SeqsUpTo(UNION {Range(FetchOnePage(r, <<>>, datetime_now(t))) : r \in Responses},
             MaxNews)

\* lines 140-150 and 105-106: the loops, the dict of line 150, and
\* filepath.exists()
SaveExists(p) ==
    /\ pc[p] = "fetching"
    /\ \E gathered \in Gathered(clock) :
         IF gathered = <<>>
         THEN /\ result' = [result EXCEPT ![p] = Result("nothing fetched", 0, 0)]
              /\ pc' = [pc EXCEPT ![p] = "returned"]
              /\ UNCHANGED save
         ELSE /\ save' = [save EXCEPT ![p] =
                     [NoSave EXCEPT !.unique_news = UniqueNews(gathered, <<>>),
                                    !.file_exists = file.exists]]
              /\ pc' = [pc EXCEPT ![p] = "opening"]
              /\ UNCHANGED result
    /\ fetchLog' = [fetchLog EXCEPT ![p] = AllPairs]
    /\ UNCHANGED <<clock, file, kw, page, news_list, all_news, lastFetch, before, fault,
                   merges, parse>>

\* lines 110-113: open(filepath, mode='a'), and the header for the writer
SaveOpen(p) ==
    /\ pc[p] = "opening"
    /\ file' = OpenAppend(file, clock)
    /\ save' = [save EXCEPT ![p].buffer = HeaderBuffer(save[p].file_exists)]
    /\ pc' = [pc EXCEPT ![p] = "reading"]
    /\ UNCHANGED <<clock, kw, page, news_list, all_news, result, fetchLog, lastFetch, before,
                   fault, merges, parse>>

\* lines 114-124: the urls of the file, the new items, their rows
SaveRead(p) ==
    /\ pc[p] = "reading"
    /\ LET existing_urls ==
               IF save[p].file_exists THEN ReadExistingUrls(file.lines) ELSE {}
           new_items == NewItems(save[p].unique_news, existing_urls)
       IN save' = [save EXCEPT ![p].buffer = save[p].buffer \o RowsBuffer(new_items),
                               ![p].new_items_count = Len(new_items)]
    /\ pc' = [pc EXCEPT ![p] = "closing"]
    /\ UNCHANGED <<clock, file, kw, page, news_list, all_news, result, fetchLog, lastFetch,
                   before, fault, merges, parse>>

\* the with block ends: the buffer reaches the file; lines 127 and 153-156
SaveClose(p) ==
    /\ pc[p] = "closing"
    /\ file' = FlushLines(file, save[p].buffer, clock)
    /\ save' = [save EXCEPT ![p].appended =
           Records([exists |-> TRUE, lines |-> save[p].buffer, mtime |-> clock])]
    /\ result' = [result EXCEPT ![p] = Completed(save[p].new_items_count)]
    /\ pc' = [pc EXCEPT ![p] = "returned"]
    /\ UNCHANGED <<clock, kw, page, news_list, all_news, fetchLog, lastFetch, before, fault,
                   merges, parse>>

\* two callers within the same hour
ConcNext ==
    \E p \in Procs :
         \/ GateCheck(p)
         \/ SaveExists(p)
         \/ SaveOpen(p)
         \/ SaveRead(p)
         \/ SaveClose(p)
         \/ Return(p)

ConcSpec == Init /\ [][ConcNext]_vars

\* the number of records of the store with a url
CountUrl(f, url) ==
    Cardinality({i \in 1..Len(Records(f)) : Records(f)[i].url = url})

\* C9 as stated: with two calls interleaving the store has at most one
\* record per url, and each call's count is the number of records it added
C9_NoDuplicates ==
    /\ \A i, j \in 1..Len(Records(file)) :
           Records(file)[i].url = Records(file)[j].url => i = j
    /\ \A p \in Procs : RanAndReturned(p) => result[p].count = Len(save[p].appended)

\* C9 as amended: each of two interleaving calls appends at most one record
\* per url, and returns as its count the number of records it appended
C9_PerCall ==
    \A p \in Procs :
        RanAndReturned(p) =>
            /\ result[p].count = Len(save[p].appended)
            /\ \A i, j \in 1..Len(save[p].appended) :
                   save[p].appended[i].url = save[p].appended[j].url => i = j

\* both calls ran at once, each appended a record, and the store has two
\* records of one url
C9_Witness ==
    /\ \A p \in Procs : RanAndReturned(p) /\ Len(save[p].appended) = 2
    /\ before[1].now = before[2].now
    /\ \E url \in StoredUrls(file) : CountUrl(file, url) = 2

====
